---- MODULE Spec2Model ----
(***************************************************************************)
(* Model of airbnb_ws.py: ws_request_with_repeats (the orchestrator,      *)
(* "fetch") and ws_individual_request (the single-attempt fetcher).       *)
(*                                                                         *)
(* The config object is shared state; every caller p of                    *)
(* ws_request_with_repeats has its own frame (loop position, locals).     *)
(* Times are integers: REQUEST_SLEEP in seconds, sleep_time in half        *)
(* seconds (random.random() is sampled at 0 and at 1/2).                   *)
(***************************************************************************)
EXTENDS Integers, Sequences, FiniteSets, TLC

\* ------------------------------------------------------------------ bounds
MaxAttempts == 3
MaxProxies == 2
MaxRequestSleep == 1

\* ------------------------------------------------------------ input values
\* the callers of ws_request_with_repeats; the session of Spec has one
Procs == {1, 2}
Callers == {1}
Proxies == {"p1", "p2"}
UserAgentLists == {<< >>, <<"ua1">>}
Statuses == {200, 204, 300, 503}
RandomSamples == {0, 1}

\* None, as a proxy name and as a response
NoProxy == "None"
None == [status_code |-> 0, id |-> -1]

Cancellations == {"SystemExit", "KeyboardInterrupt"}
RequestExceptions ==
    {"ConnectionError", "HTTPError", "Timeout", "TooManyRedirects", "InvalidURL"}
OtherExceptions == {"ValueError", "IndexError"}

\* what requests.get can do: answer with a status, or raise
RequestOutcomes ==
    {[status |-> s, exc |-> ""] : s \in Statuses}
    \cup {[status |-> 0, exc |-> e] :
             e \in RequestExceptions \cup {"ValueError"} \cup Cancellations}

\* the classes an exception object is an instance of
ClassesOf(exc) ==
    CASE exc \in Cancellations -> {exc, "BaseException"}
      [] exc \in RequestExceptions -> {exc, "RequestException", "Exception"}
      [] OTHER -> {exc, "Exception"}

\* an except chain: the action of the first clause that matches, and
\* "raise" (the exception propagates) when none does
RECURSIVE Handle(_, _)
Handle(clauses, exc) ==
    IF clauses = << >> THEN "raise"
    ELSE IF Head(clauses).classes \cap ClassesOf(exc) # {}
         THEN Head(clauses).act
         ELSE Handle(Tail(clauses), exc)

FetcherClauses ==
    << [classes |-> {"SystemExit", "KeyboardInterrupt"}, act |-> "raise"],
       [classes |-> {"ConnectionError"}, act |-> "None"],
       [classes |-> {"HTTPError"}, act |-> "None"],
       [classes |-> {"Timeout"}, act |-> "None"],
       [classes |-> {"TooManyRedirects"}, act |-> "None"],
       [classes |-> {"RequestException"}, act |-> "None"],
       [classes |-> {"Exception"}, act |-> "None"] >>

OrchestratorClauses ==
    << [classes |-> {"SystemExit", "KeyboardInterrupt"}, act |-> "raise"],
       [classes |-> {"AttributeError"}, act |-> "continue"],
       [classes |-> {"Exception"}, act |-> "continue"] >>

\* faulty variant: the chain without its last clause, except Exception
FetcherHandlerNoCatchAll(exc) ==
    Handle(SubSeq(FetcherClauses, 1, Len(FetcherClauses) - 1), exc)
FetcherHandler(exc) == Handle(FetcherClauses, exc)
\* faulty variant: a bare except that goes on with the loop
OrchestratorHandlerBare(exc) == "continue"
OrchestratorHandler(exc) == Handle(OrchestratorClauses, exc)

\* ---------------------------------------------------------- pure helpers
\* range(n) as the sequence 0, 1, ..., n-1 (empty for n <= 0)
\* faulty variant: range(n + 1), one iteration too many
RangeInclusive(n) == [i \in 1..(n + 1) |-> i - 1]
\* faulty variant: the body runs before the bound is tested (at least once)
RangeNonEmpty(n) == [i \in 1..(IF n > 1 THEN n ELSE 1) |-> i - 1]
Range(n) == [i \in 1..n |-> i - 1]

Elems(list) == {list[i] : i \in 1..Len(list)}

SeqsUpTo(S, n) == UNION {[1..k -> S] : k \in 0..n}

\* list.remove(x): drops the first occurrence of x
FirstIndex(list, x) ==
    CHOOSE i \in 1..Len(list) :
        list[i] = x /\ \A j \in 1..(i - 1) : list[j] # x
ListRemove(list, x) ==
    LET k == FirstIndex(list, x)
    IN  [i \in 1..(Len(list) - 1) |-> IF i < k THEN list[i] ELSE list[i + 1]]

\* truth value of a proxy name in "if http_proxy:"
Truthy(proxy) == proxy # NoProxy /\ proxy # ""

\* faulty variant: status_code >= requests.codes.ok
IsOkAtLeast(status) == status >= 200
IsOk(status) == status = 200
\* faulty variant: only informational statuses count as success
IsSuccessBelowOk(status) == status < 200

IsSuccess(status) == status < 300
\* faulty variant: len(...) >= 0
UseUserAgentListAlways(list) == Len(list) >= 0
UseUserAgentList(list) == Len(list) > 0
UseProxyList(list) == Len(list) > 0
\* faulty variants: len(...) < 0, len(...) >= 0
ListIsEmptyBelow(list) == Len(list) < 0
ListIsEmptyAtLeast(list) == Len(list) >= 0
ListIsEmpty(list) == Len(list) = 0
TakeRemoveBranch(coin) == coin
SleepIncrement == 1

\* random.choice(list) raises IndexError on an empty list
Choices(list) == Elems(list)
ChoiceRaises(list) == Len(list) = 0

\* ------------------------------------------------------------------ state
VARIABLES
    \* the shared config object
    HTTP_PROXY_LIST, HTTP_PROXY_LIST_COMPLETE, REQUEST_SLEEP,
    MAX_CONNECTION_ATTEMPTS, USER_AGENT_LIST, RE_INIT_SLEEP_TIME,
    \* frame of ws_request_with_repeats, per caller
    pc, it, attempt_id, response, result, raised,
    \* frame of ws_individual_request, per caller
    sleep_time, user_agent, http_proxy, resp,
    \* history: what each caller did, kept for the properties
    attempts, cur, tot, atCall, fault, signal

config == << HTTP_PROXY_LIST, HTTP_PROXY_LIST_COMPLETE, REQUEST_SLEEP,
             MAX_CONNECTION_ATTEMPTS, USER_AGENT_LIST, RE_INIT_SLEEP_TIME >>
orchestrator == << pc, it, attempt_id, response, result, raised >>
fetcher == << sleep_time, user_agent, http_proxy, resp >>
history == << attempts, cur, tot, atCall, fault, signal >>
proxyLists == << HTTP_PROXY_LIST, HTTP_PROXY_LIST_COMPLETE >>
vars == << config, orchestrator, fetcher, history >>

DefaultUserAgent == "Mozilla/5.0"

\* history of one attempt, as it stands when the attempt begins
NewAttempt ==
    [preList |-> HTTP_PROXY_LIST, preSleep |-> REQUEST_SLEEP,
     sleeps |-> 0, slept |-> 0, requests |-> 0,
     sentProxy |-> NoProxy, sentUA |-> "",
     status |-> 0, coin |-> "none", removed |-> FALSE, refilled |-> FALSE,
     cooldowns |-> 0, cooled |-> 0, increments |-> 0]

NoAttempt ==
    [preList |-> << >>, preSleep |-> 0,
     sleeps |-> 0, slept |-> 0, requests |-> 0,
     sentProxy |-> NoProxy, sentUA |-> "",
     status |-> 0, coin |-> "none", removed |-> FALSE, refilled |-> FALSE,
     cooldowns |-> 0, cooled |-> 0, increments |-> 0]

NoTotals == [calls |-> 0, sleeps |-> 0, requests |-> 0, cooldowns |-> 0,
             removes |-> 0, refills |-> 0]

Init ==
    \* the configured proxy list (duplicates allowed), live list = complete list
    /\ HTTP_PROXY_LIST_COMPLETE \in SeqsUpTo(Proxies, MaxProxies)
    /\ HTTP_PROXY_LIST = HTTP_PROXY_LIST_COMPLETE
    /\ REQUEST_SLEEP \in 0..MaxRequestSleep
    /\ MAX_CONNECTION_ATTEMPTS \in (-1)..MaxAttempts
    /\ USER_AGENT_LIST \in UserAgentLists
    /\ RE_INIT_SLEEP_TIME \in {60}
    /\ pc = [p \in Procs |-> "idle"]
    /\ it = [p \in Procs |-> 0]
    /\ attempt_id = [p \in Procs |-> 0]
    /\ response = [p \in Procs |-> None]
    /\ result = [p \in Procs |-> None]
    /\ raised = [p \in Procs |-> ""]
    /\ sleep_time = [p \in Procs |-> 0]
    /\ user_agent = [p \in Procs |-> ""]
    /\ http_proxy = [p \in Procs |-> NoProxy]
    /\ resp = [p \in Procs |-> None]
    /\ attempts = [p \in Procs |-> << >>]
    /\ cur = [p \in Procs |-> NoAttempt]
    /\ tot = [p \in Procs |-> NoTotals]
    /\ atCall = [p \in Procs |-> [list |-> << >>, complete |-> << >>, sleep |-> 0]]
    /\ fault = [p \in Procs |-> ""]
    /\ signal = [p \in Procs |-> ""]

\* --------------------------------------------------------- leaving the fetcher
\* ws_individual_request ends: by "return r" (exc = ""), or by exception exc
\* raised inside its try block, which its except chain turns into
\* "return None" or lets go up to the except chain of ws_request_with_repeats.
\* The attempt's entry in the history is completed from cur', which the
\* calling action sets first.
Exit(p, exc, r) ==
    LET act == IF exc = "" THEN "return" ELSE FetcherHandler(exc)
        escapes == act = "raise"
        ret == IF exc = "" THEN r ELSE None
        outer == IF escapes THEN OrchestratorHandler(exc) ELSE "none"
        n == Len(attempts[p])
    IN  /\ fault' = [fault EXCEPT ![p] = exc]
        /\ signal' = [signal EXCEPT ![p] = IF exc \in Cancellations THEN exc ELSE @]
        /\ attempts' = [attempts EXCEPT ![p][n] =
              [id |-> @.id,
               how |-> IF escapes THEN "raise"
                       ELSE IF ret = None THEN "None" ELSE "response",
               status |-> IF escapes THEN 0 ELSE ret.status_code,
               viaProxy |-> cur'[p].requests > 0 /\ Truthy(cur'[p].sentProxy),
               coin |-> cur'[p].coin]]
        /\ response' = [response EXCEPT ![p] = IF escapes THEN @ ELSE ret]
        /\ pc' = [pc EXCEPT ![p] =
              IF ~escapes THEN "check"
              ELSE IF outer = "raise" THEN "done" ELSE "loop"]
        /\ raised' = [raised EXCEPT ![p] =
              IF escapes /\ outer = "raise" THEN exc ELSE @]
        /\ sleep_time' = [sleep_time EXCEPT ![p] = 0]
        /\ user_agent' = [user_agent EXCEPT ![p] = ""]
        /\ http_proxy' = [http_proxy EXCEPT ![p] = NoProxy]
        /\ resp' = [resp EXCEPT ![p] = None]

\* the fetcher goes on to its next statement
Goto(p, next) ==
    /\ pc' = [pc EXCEPT ![p] = next]
    /\ UNCHANGED << response, raised, attempts, fault, signal >>

\* ------------------------------------------------------ ws_request_with_repeats
\* the caller enters ws_request_with_repeats(config, url, params)
Call(p) ==
    /\ pc[p] = "idle"
    /\ pc' = [pc EXCEPT ![p] = "loop"]
    /\ it' = [it EXCEPT ![p] = 0]
    /\ atCall' = [atCall EXCEPT ![p] =
          [list |-> HTTP_PROXY_LIST, complete |-> HTTP_PROXY_LIST_COMPLETE,
           sleep |-> REQUEST_SLEEP]]
    /\ UNCHANGED << config, attempt_id, response, result, raised, fetcher,
                    attempts, cur, tot, fault, signal >>

\* for attempt_id in range(config.MAX_CONNECTION_ATTEMPTS): the next
\* iteration calls ws_individual_request, the end of the range returns None
Loop(p) ==
    /\ pc[p] = "loop"
    /\ LET ids == Range(MAX_CONNECTION_ATTEMPTS)
       IN  IF it[p] < Len(ids)
           THEN /\ it' = [it EXCEPT ![p] = @ + 1]
                /\ attempt_id' = [attempt_id EXCEPT ![p] = ids[it[p] + 1]]
                /\ pc' = [pc EXCEPT ![p] = "sleep"]
                /\ attempts' = [attempts EXCEPT ![p] =
                      Append(@, [id |-> ids[it[p] + 1], how |-> "pending",
                                 status |-> 0, viaProxy |-> FALSE,
                                 coin |-> "none"])]
                /\ cur' = [cur EXCEPT ![p] = NewAttempt]
                /\ tot' = [tot EXCEPT ![p].calls = @ + 1]
                /\ fault' = [fault EXCEPT ![p] = ""]
                /\ UNCHANGED result
           ELSE /\ result' = [result EXCEPT ![p] = None]
                /\ pc' = [pc EXCEPT ![p] = "done"]
                /\ UNCHANGED << it, attempt_id, attempts, cur, tot, fault >>
    /\ UNCHANGED << config, response, raised, fetcher, atCall, signal >>

\* faulty variant: the status test never returns the response
CheckNoReturn(p) ==
    /\ pc[p] = "check"
    /\ pc' = [pc EXCEPT ![p] = "loop"]
    /\ cur' = [cur EXCEPT ![p] = NoAttempt]
    /\ fault' = [fault EXCEPT ![p] = ""]
    /\ UNCHANGED << config, it, attempt_id, response, result, raised, fetcher,
                    attempts, tot, atCall, signal >>

\* if response is None: continue / elif status_code == ok: return response
Check(p) ==
    /\ pc[p] = "check"
    /\ IF response[p] = None
       THEN /\ pc' = [pc EXCEPT ![p] = "loop"]
            /\ UNCHANGED result
       ELSE IF IsOk(response[p].status_code)
       THEN /\ pc' = [pc EXCEPT ![p] = "done"]
            /\ result' = [result EXCEPT ![p] = response[p]]
       ELSE /\ pc' = [pc EXCEPT ![p] = "loop"]
            /\ UNCHANGED result
    /\ cur' = [cur EXCEPT ![p] = NoAttempt]
    /\ fault' = [fault EXCEPT ![p] = ""]
    /\ UNCHANGED << config, it, attempt_id, response, raised, fetcher,
                    attempts, tot, atCall, signal >>

\* ------------------------------------------------------- ws_individual_request
\* sleep_time = config.REQUEST_SLEEP * random.random(); time.sleep(sleep_time)
\* faulty variant: the sleep is not scaled by the random sample
SleepTimeUnscaled(base, r) == base + r

\* sleep_time = config.REQUEST_SLEEP * random.random(), the sample r taken at
\* the ends of the unit interval
SleepTime(base, r) == base * r

Sleep(p) ==
    /\ pc[p] = "sleep"
    /\ \E r \in RandomSamples, o \in {""} \cup Cancellations :
          /\ cur' = [cur EXCEPT ![p].sleeps = @ + 1,
                                ![p].slept = SleepTime(REQUEST_SLEEP, r)]
          /\ tot' = [tot EXCEPT ![p].sleeps = @ + 1]
          /\ IF o = ""
             THEN /\ sleep_time' = [sleep_time EXCEPT ![p] =
                                        SleepTime(REQUEST_SLEEP, r)]
                  /\ Goto(p, "select")
                  /\ UNCHANGED << user_agent, http_proxy, resp >>
             ELSE Exit(p, o, None)
    /\ UNCHANGED << config, it, attempt_id, result, atCall >>

\* the User-Agent header of this attempt, and whether a proxy is used
Select(p) ==
    /\ pc[p] = "select"
    /\ UNCHANGED << config, it, attempt_id, result, cur, tot, atCall >>
    /\ LET useUA == UseUserAgentList(USER_AGENT_LIST)
           usePx == UseProxyList(HTTP_PROXY_LIST)
       IN  IF useUA /\ ChoiceRaises(USER_AGENT_LIST)
           THEN Exit(p, "IndexError", None)
           ELSE \E ua \in (IF useUA THEN Choices(USER_AGENT_LIST)
                                    ELSE {DefaultUserAgent}) :
                   /\ user_agent' = [user_agent EXCEPT ![p] = ua]
                   /\ Goto(p, IF usePx THEN "choose" ELSE "request")
                   /\ UNCHANGED << sleep_time, http_proxy, resp >>

\* http_proxy = random.choice(config.HTTP_PROXY_LIST)
Choose(p) ==
    /\ pc[p] = "choose"
    /\ UNCHANGED << config, it, attempt_id, result, cur, tot, atCall >>
    /\ IF ChoiceRaises(HTTP_PROXY_LIST)
       THEN Exit(p, "IndexError", None)
       ELSE \E px \in Choices(HTTP_PROXY_LIST) :
               /\ http_proxy' = [http_proxy EXCEPT ![p] = px]
               /\ Goto(p, "request")
               /\ UNCHANGED << sleep_time, user_agent, resp >>

\* response = requests.get(...); if response.status_code < 300: return response
Request(p) ==
    /\ pc[p] = "request"
    /\ \E o \in RequestOutcomes :
          /\ cur' = [cur EXCEPT ![p].requests = @ + 1,
                                ![p].sentProxy = http_proxy[p],
                                ![p].sentUA = user_agent[p],
                                ![p].status = o.status]
          /\ tot' = [tot EXCEPT ![p].requests = @ + 1]
          /\ IF o.exc = ""
             THEN LET r == [status_code |-> o.status, id |-> attempt_id[p]]
                  IN  IF IsSuccess(o.status)
                      THEN Exit(p, "", r)
                      ELSE /\ resp' = [resp EXCEPT ![p] = r]
                           /\ Goto(p, "blocked")
                           /\ UNCHANGED << sleep_time, user_agent, http_proxy >>
             ELSE Exit(p, o.exc, None)
    /\ UNCHANGED << config, it, attempt_id, result, atCall >>

\* faulty variant: both names bound to one list object, so that remove
\* changes the complete list too
RemoveProxyAliased(proxy) ==
    /\ HTTP_PROXY_LIST' = ListRemove(HTTP_PROXY_LIST, proxy)
    /\ HTTP_PROXY_LIST_COMPLETE' =
          IF proxy \in Elems(HTTP_PROXY_LIST_COMPLETE)
          THEN ListRemove(HTTP_PROXY_LIST_COMPLETE, proxy)
          ELSE HTTP_PROXY_LIST_COMPLETE

\* config.HTTP_PROXY_LIST.remove(http_proxy)
RemoveProxy(proxy) ==
    /\ HTTP_PROXY_LIST' = ListRemove(HTTP_PROXY_LIST, proxy)
    /\ UNCHANGED HTTP_PROXY_LIST_COMPLETE

\* status >= 300: through a proxy and with a non-empty list, go on to the
\* coin flip; without a proxy, go on to the long sleep
Blocked(p) ==
    /\ pc[p] = "blocked"
    /\ Goto(p, IF Truthy(http_proxy[p])
               THEN IF UseProxyList(HTTP_PROXY_LIST) THEN "coin" ELSE "refill"
               ELSE "cooldown")
    /\ UNCHANGED << config, it, attempt_id, result, fetcher, cur, tot, atCall >>

\* if random.choice([True, False]): config.HTTP_PROXY_LIST.remove(http_proxy)
\* (remove raises ValueError when the proxy is not in the list)
Coin(p) ==
    /\ pc[p] = "coin"
    /\ \E coin \in BOOLEAN :
          IF TakeRemoveBranch(coin)
          THEN IF http_proxy[p] \in Elems(HTTP_PROXY_LIST)
               THEN /\ RemoveProxy(http_proxy[p])
                    /\ cur' = [cur EXCEPT ![p].coin = "remove",
                                          ![p].removed = TRUE]
                    /\ tot' = [tot EXCEPT ![p].removes = @ + 1]
                    /\ Goto(p, "refill")
                    /\ UNCHANGED fetcher
               ELSE /\ cur' = [cur EXCEPT ![p].coin = "remove"]
                    /\ Exit(p, "ValueError", None)
                    /\ UNCHANGED << proxyLists, tot >>
          ELSE /\ cur' = [cur EXCEPT ![p].coin = "keep"]
               /\ Goto(p, "refill")
               /\ UNCHANGED << proxyLists, tot, fetcher >>
    /\ UNCHANGED << REQUEST_SLEEP, MAX_CONNECTION_ATTEMPTS, USER_AGENT_LIST,
                    RE_INIT_SLEEP_TIME, it, attempt_id, result, atCall >>

\* faulty variant: "return response" only in the branch without a proxy, so
\* that the branch with a proxy ends the function (returning None)
RefillNoReturn(p) ==
    /\ pc[p] = "refill"
    /\ UNCHANGED << config, it, attempt_id, result, cur, tot, atCall >>
    /\ IF ListIsEmpty(HTTP_PROXY_LIST)
       THEN /\ Goto(p, "reset")
            /\ UNCHANGED fetcher
       ELSE Exit(p, "", None)

\* if len(config.HTTP_PROXY_LIST) == 0: go on to refill the list;
\* otherwise return response
Refill(p) ==
    /\ pc[p] = "refill"
    /\ UNCHANGED << config, it, attempt_id, result, cur, tot, atCall >>
    /\ IF ListIsEmpty(HTTP_PROXY_LIST)
       THEN /\ Goto(p, "reset")
            /\ UNCHANGED fetcher
       ELSE Exit(p, "", resp[p])

\* config.HTTP_PROXY_LIST = list(config.HTTP_PROXY_LIST_COMPLETE)
\* faulty variant: the list is recreated from itself, not from the complete
\* list
ResetFromLive(p) ==
    /\ pc[p] = "reset"
    /\ HTTP_PROXY_LIST' = HTTP_PROXY_LIST
    /\ cur' = [cur EXCEPT ![p].refilled = TRUE]
    /\ tot' = [tot EXCEPT ![p].refills = @ + 1]
    /\ Goto(p, "cooldown")
    /\ UNCHANGED << HTTP_PROXY_LIST_COMPLETE, REQUEST_SLEEP,
                    MAX_CONNECTION_ATTEMPTS, USER_AGENT_LIST, RE_INIT_SLEEP_TIME,
                    it, attempt_id, result, fetcher, atCall >>

\* faulty variant: the complete list is appended to the live list
ResetExtends(p) ==
    /\ pc[p] = "reset"
    /\ HTTP_PROXY_LIST' = HTTP_PROXY_LIST \o HTTP_PROXY_LIST_COMPLETE
    /\ cur' = [cur EXCEPT ![p].refilled = TRUE]
    /\ tot' = [tot EXCEPT ![p].refills = @ + 1]
    /\ Goto(p, "cooldown")
    /\ UNCHANGED << HTTP_PROXY_LIST_COMPLETE, REQUEST_SLEEP,
                    MAX_CONNECTION_ATTEMPTS, USER_AGENT_LIST, RE_INIT_SLEEP_TIME,
                    it, attempt_id, result, fetcher, atCall >>

Reset(p) ==
    /\ pc[p] = "reset"
    /\ HTTP_PROXY_LIST' = HTTP_PROXY_LIST_COMPLETE
    /\ cur' = [cur EXCEPT ![p].refilled = TRUE]
    /\ tot' = [tot EXCEPT ![p].refills = @ + 1]
    /\ Goto(p, "cooldown")
    /\ UNCHANGED << HTTP_PROXY_LIST_COMPLETE, REQUEST_SLEEP,
                    MAX_CONNECTION_ATTEMPTS, USER_AGENT_LIST, RE_INIT_SLEEP_TIME,
                    it, attempt_id, result, fetcher, atCall >>

\* time.sleep(config.RE_INIT_SLEEP_TIME)
\* faulty variant: the long sleep is left out
CooldownLeftOut(p) ==
    /\ pc[p] = "cooldown"
    /\ Goto(p, "incr")
    /\ UNCHANGED << config, it, attempt_id, result, atCall, fetcher, cur, tot >>

Cooldown(p) ==
    /\ pc[p] = "cooldown"
    /\ \E o \in {""} \cup Cancellations :
          /\ cur' = [cur EXCEPT ![p].cooldowns = @ + 1,
                                ![p].cooled = @ + RE_INIT_SLEEP_TIME]
          /\ tot' = [tot EXCEPT ![p].cooldowns = @ + 1]
          /\ IF o = ""
             THEN /\ Goto(p, "incr")
                  /\ UNCHANGED fetcher
             ELSE Exit(p, o, None)
    /\ UNCHANGED << config, it, attempt_id, result, atCall >>

\* faulty variant: the response is returned without the increment
IncrSkipped(p) ==
    /\ pc[p] = "incr"
    /\ UNCHANGED << config, it, attempt_id, result, cur, tot, atCall >>
    /\ Exit(p, "", resp[p])

\* config.REQUEST_SLEEP += 1.0; return response
Incr(p) ==
    /\ pc[p] = "incr"
    /\ REQUEST_SLEEP' = REQUEST_SLEEP + SleepIncrement
    /\ cur' = [cur EXCEPT ![p].increments = @ + 1]
    /\ Exit(p, "", resp[p])
    /\ UNCHANGED << HTTP_PROXY_LIST, HTTP_PROXY_LIST_COMPLETE,
                    MAX_CONNECTION_ATTEMPTS, USER_AGENT_LIST, RE_INIT_SLEEP_TIME,
                    it, attempt_id, result, tot, atCall >>

\* --------------------------------------------------------------- the system
Step(p) ==
    \/ Call(p)
    \/ Loop(p)
    \/ Check(p)
    \/ Sleep(p)
    \/ Select(p)
    \/ Choose(p)
    \/ Request(p)
    \/ Blocked(p)
    \/ Coin(p)
    \/ Refill(p)
    \/ Reset(p)
    \/ Cooldown(p)
    \/ Incr(p)

Next == \E p \in Callers : Step(p)

Spec == Init /\ [][Next]_vars

\* ------------------------------------------- two fetches on one config
\* Two callers run ws_request_with_repeats on the same config object with
\* no lock between them: their steps interleave freely.
\* config.MAX_CONNECTION_ATTEMPTS of the shared config: one attempt for each
\* of the two fetches, whose pool steps interleave
AttemptsConc == 1

InitConc ==
    /\ Init
    /\ MAX_CONNECTION_ATTEMPTS = AttemptsConc

NextConc == \E p \in Procs : Step(p)

SpecConc == InitConc /\ [][NextConc]_vars

\* ------------------------------------------------------------- properties
\* the call of ws_request_with_repeats has returned (not raised)
Returned(p) == pc[p] = "done" /\ raised[p] = ""

\* attempt i of caller p, as the history has it
Attempt(p, i) == attempts[p][i]
IsNone(a) == a.how = "None"
IsResponse(a) == a.how = "response"
IsSuccessOutcome(a) == a.how = "response" /\ a.status < 300
IsSoftBlocked(a) == a.how = "response" /\ a.status >= 300
ResponseOf(a) == [status_code |-> a.status, id |-> a.id]

\* C1: when every call of the fetcher made by a fetch returns None, the
\* fetch has called it exactly MAX_CONNECTION_ATTEMPTS (>= 0) times, with the
\* attempt ids 0, 1, ..., N-1 in this order, and returns None.
C1_AllTransientExactlyN ==
    \A p \in Procs :
        ( /\ MAX_CONNECTION_ATTEMPTS >= 0
          /\ Returned(p)
          /\ \A i \in 1..Len(attempts[p]) : IsNone(Attempt(p, i)) )
        => /\ Len(attempts[p]) = MAX_CONNECTION_ATTEMPTS
           /\ tot[p].calls = MAX_CONNECTION_ATTEMPTS
           /\ \A i \in 1..Len(attempts[p]) : Attempt(p, i).id = i - 1
           /\ result[p] = None

C1_Witness ==
    /\ Returned(1)
    /\ MAX_CONNECTION_ATTEMPTS = 3
    /\ Len(attempts[1]) = 3
    /\ \A i \in 1..3 : IsNone(Attempt(1, i)) /\ Attempt(1, i).id = i - 1
    /\ result[1] = None

\* C2 (as claimed): the first attempt whose response has a status < 300 is
\* the last attempt of the fetch, and the fetch returns that response.
C2_FirstSuccessReturned ==
    \A p \in Procs : \A k \in 1..Len(attempts[p]) :
        ( /\ IsSuccessOutcome(Attempt(p, k))
          /\ \A j \in 1..(k - 1) : ~IsSuccessOutcome(Attempt(p, j)) )
        => /\ Len(attempts[p]) = k
           /\ pc[p] # "check" =>
                 /\ Returned(p)
                 /\ result[p] = ResponseOf(Attempt(p, k))

\* C3: a fetch that returns never returns a response that is not a success,
\* and when no attempt had a status < 300 it returns None after exactly
\* MAX_CONNECTION_ATTEMPTS attempts, also when the last one was soft-blocked.
C3_ExhaustionReturnsNone ==
    \A p \in Procs :
        Returned(p) =>
            /\ result[p] # None => result[p].status_code < 300
            /\ (\A i \in 1..Len(attempts[p]) : ~IsSuccessOutcome(Attempt(p, i)))
               => /\ result[p] = None
                  /\ MAX_CONNECTION_ATTEMPTS >= 0
                     => Len(attempts[p]) = MAX_CONNECTION_ATTEMPTS

C3_Witness ==
    /\ Returned(1)
    /\ MAX_CONNECTION_ATTEMPTS = 2
    /\ Len(attempts[1]) = 2
    /\ IsNone(Attempt(1, 1))
    /\ IsSoftBlocked(Attempt(1, 2)) /\ Attempt(1, 2).status = 503
    /\ result[1] = None

\* C4: every proxy of HTTP_PROXY_LIST is a proxy of HTTP_PROXY_LIST_COMPLETE,
\* and HTTP_PROXY_LIST_COMPLETE is the list it was when the fetch was called.
C4_PoolWithinComplete ==
    /\ Elems(HTTP_PROXY_LIST) \subseteq Elems(HTTP_PROXY_LIST_COMPLETE)
    /\ \A p \in Procs :
          pc[p] # "idle" => HTTP_PROXY_LIST_COMPLETE = atCall[p].complete

C4_Witness ==
    /\ tot[1].refills >= 1
    /\ tot[1].removes >= 2
    /\ Len(HTTP_PROXY_LIST) < Len(HTTP_PROXY_LIST_COMPLETE)
    /\ pc[1] = "check"

\* C5: an exception raised inside an attempt that is not SystemExit or
\* KeyboardInterrupt makes the fetcher return None (it does not leave the
\* fetcher), and the fetch raises nothing but SystemExit/KeyboardInterrupt.
C5_NoFaultEscapes ==
    \A p \in Procs :
        /\ raised[p] \in {""} \cup Cancellations
        /\ \A i \in 1..Len(attempts[p]) :
              Attempt(p, i).how = "raise" =>
                  /\ i = Len(attempts[p])
                  /\ fault[p] \in Cancellations
        /\ (fault[p] # "" /\ fault[p] \notin Cancellations) =>
              /\ pc[p] = "check"
              /\ IsNone(Attempt(p, Len(attempts[p])))
              /\ response[p] = None

C5_Witness ==
    /\ pc[1] = "check"
    /\ fault[1] = "Timeout"
    /\ response[1] = None
    /\ cur[1].requests = 1

\* C6: once SystemExit or KeyboardInterrupt has been raised inside an attempt
\* of a fetch, the fetch has ended by raising it (through the fetcher and
\* through the fetch), and from then on the fetch starts no sleep, issues no
\* request and begins no attempt.
C6_CancellationPropagates ==
    /\ [](\A p \in Procs :
             signal[p] # "" =>
                 /\ pc[p] = "done"
                 /\ raised[p] = signal[p]
                 /\ Attempt(p, Len(attempts[p])).how = "raise")
    /\ [][\A p \in Procs :
             signal[p] # "" =>
                 /\ tot'[p] = tot[p]
                 /\ attempts'[p] = attempts[p]
                 /\ pc'[p] = "done"]_vars

C6_Witness ==
    /\ signal[1] = "KeyboardInterrupt"
    /\ raised[1] = "KeyboardInterrupt"
    /\ cur[1].cooldowns = 1
    /\ Len(attempts[1]) = 2
    /\ MAX_CONNECTION_ATTEMPTS = 3

\* the attempt of caller p has returned to ws_request_with_repeats
AttemptReturned(p) == pc[p] = "check" /\ fault[p] = ""

\* the attempt of caller p was soft-blocked through a proxy
BlockedViaProxy(p) ==
    /\ cur[p].requests = 1
    /\ cur[p].status >= 300
    /\ Truthy(cur[p].sentProxy)

\* C7: an attempt that returns after a soft block through a proxy, in which
\* the proxy was removed and the removal left HTTP_PROXY_LIST empty, has
\* refilled HTTP_PROXY_LIST to equal HTTP_PROXY_LIST_COMPLETE, has slept
\* RE_INIT_SLEEP_TIME exactly once, and leaves REQUEST_SLEEP exactly 1 larger
\* than it was when the attempt began.
C7_EmptiedPoolRefilled ==
    \A p \in Procs :
        ( /\ AttemptReturned(p)
          /\ BlockedViaProxy(p)
          /\ cur[p].removed
          /\ ListRemove(cur[p].preList, cur[p].sentProxy) = << >> )
        => /\ cur[p].refilled
           /\ HTTP_PROXY_LIST = HTTP_PROXY_LIST_COMPLETE
           /\ cur[p].cooldowns = 1
           /\ cur[p].cooled = RE_INIT_SLEEP_TIME
           /\ cur[p].increments = 1
           /\ REQUEST_SLEEP = cur[p].preSleep + 1
           /\ response[p].status_code = cur[p].status

C7_Witness ==
    /\ AttemptReturned(1)
    /\ BlockedViaProxy(1)
    /\ cur[1].removed
    /\ cur[1].preList = <<"p1">>
    /\ HTTP_PROXY_LIST_COMPLETE = <<"p1", "p2">>
    /\ HTTP_PROXY_LIST = <<"p1", "p2">>
    /\ REQUEST_SLEEP = cur[1].preSleep + 1

\* attempt a was soft-blocked through a proxy and the coin kept the proxy
KeptProxy(a) == IsSoftBlocked(a) /\ a.viaProxy /\ a.coin = "keep"

\* C8: an attempt that returns after a soft block through a proxy in which
\* the removal branch was not taken leaves HTTP_PROXY_LIST and REQUEST_SLEEP
\* as they were when it began and sleeps no RE_INIT_SLEEP_TIME; and a fetch
\* all of whose attempts were such attempts returns None with
\* HTTP_PROXY_LIST and REQUEST_SLEEP as they were when it was called.
C8_KeptProxyChangesNothing ==
    \A p \in Procs :
        /\ ( /\ AttemptReturned(p)
             /\ BlockedViaProxy(p)
             /\ cur[p].coin = "keep" )
           => /\ HTTP_PROXY_LIST = cur[p].preList
              /\ REQUEST_SLEEP = cur[p].preSleep
              /\ cur[p].cooldowns = 0
              /\ ~cur[p].refilled
        /\ ( /\ Returned(p)
             /\ \A i \in 1..Len(attempts[p]) : KeptProxy(Attempt(p, i)) )
           => /\ result[p] = None
              /\ HTTP_PROXY_LIST = atCall[p].list
              /\ REQUEST_SLEEP = atCall[p].sleep
              /\ tot[p].cooldowns = 0
              /\ MAX_CONNECTION_ATTEMPTS >= 0
                 => Len(attempts[p]) = MAX_CONNECTION_ATTEMPTS

C8_Witness ==
    /\ Returned(1)
    /\ MAX_CONNECTION_ATTEMPTS = 2
    /\ Len(attempts[1]) = 2
    /\ \A i \in 1..2 : KeptProxy(Attempt(1, i)) /\ Attempt(1, i).status = 503
    /\ result[1] = None
    /\ HTTP_PROXY_LIST = atCall[1].list
    /\ REQUEST_SLEEP = atCall[1].sleep

\* the attempt of caller p is past requests.get
PastRequest(p) ==
    pc[p] \in {"blocked", "coin", "refill", "reset", "cooldown", "incr", "check"}

\* C9: an attempt that began with HTTP_PROXY_LIST and USER_AGENT_LIST both
\* empty raises no IndexError, and once it is past its request (or has
\* returned without a cancellation) it has issued exactly one request, with
\* no proxy and with the default user agent.
C9_EmptyPoolsDirectRequest ==
    \A p \in Procs :
        ( /\ (pc[p] \in {"select", "choose", "request"} \/ PastRequest(p))
          /\ cur[p].preList = << >>
          /\ USER_AGENT_LIST = << >> )
        => /\ fault[p] # "IndexError"
           /\ cur[p].requests <= 1
           /\ (PastRequest(p) /\ fault[p] \notin Cancellations)
              => /\ cur[p].requests = 1
                 /\ cur[p].sentProxy = NoProxy
                 /\ cur[p].sentUA = DefaultUserAgent

C9_Witness ==
    /\ pc[1] = "check"
    /\ cur[1].preList = << >>
    /\ USER_AGENT_LIST = << >>
    /\ cur[1].requests = 1
    /\ cur[1].sentProxy = NoProxy
    /\ cur[1].sentUA = DefaultUserAgent
    /\ response[1].status_code = 200

\* C10: an attempt that returns a response with status 200 is the last
\* attempt of its fetch, and the fetch returns that response: with k earlier
\* attempts, all without status 200, exactly k+1 attempts are made.
C10_First200Returned ==
    \A p \in Procs : \A k \in 1..Len(attempts[p]) :
        ( /\ IsResponse(Attempt(p, k))
          /\ Attempt(p, k).status = 200 )
        => /\ Len(attempts[p]) = k
           /\ Attempt(p, k).id = k - 1
           /\ tot[p].calls = k
           /\ pc[p] # "check" =>
                 /\ Returned(p)
                 /\ result[p] = [status_code |-> 200, id |-> k - 1]

C10_Witness ==
    /\ Returned(1)
    /\ MAX_CONNECTION_ATTEMPTS = 3
    /\ Len(attempts[1]) = 3
    /\ IsNone(Attempt(1, 1))
    /\ IsNone(Attempt(1, 2))
    /\ result[1] = [status_code |-> 200, id |-> 2]
    /\ tot[1].requests = 3

\* the attempt of caller p was soft-blocked without a proxy
BlockedDirect(p) ==
    /\ cur[p].requests = 1
    /\ cur[p].status >= 300
    /\ ~Truthy(cur[p].sentProxy)

\* attempt a was soft-blocked without a proxy
DirectBlock(a) == IsSoftBlocked(a) /\ ~a.viaProxy

\* C11: an attempt that is soft-blocked without a proxy sleeps
\* RE_INIT_SLEEP_TIME exactly once, REQUEST_SLEEP still being what it was,
\* and returns with REQUEST_SLEEP exactly 1 larger and HTTP_PROXY_LIST
\* unchanged; a fetch whose N attempts were all such attempts returns with
\* REQUEST_SLEEP exactly N larger than it was at the call.
C11_DirectBlockCoolsDown ==
    \A p \in Procs :
        /\ (BlockedDirect(p) /\ pc[p] = "incr")
           => /\ cur[p].cooldowns = 1
              /\ REQUEST_SLEEP = cur[p].preSleep
        /\ (BlockedDirect(p) /\ AttemptReturned(p))
           => /\ cur[p].cooldowns = 1
              /\ cur[p].cooled = RE_INIT_SLEEP_TIME
              /\ cur[p].increments = 1
              /\ REQUEST_SLEEP = cur[p].preSleep + 1
              /\ HTTP_PROXY_LIST = cur[p].preList
              /\ ~cur[p].removed /\ ~cur[p].refilled
        /\ ( /\ Returned(p)
             /\ \A i \in 1..Len(attempts[p]) : DirectBlock(Attempt(p, i)) )
           => /\ REQUEST_SLEEP = atCall[p].sleep + Len(attempts[p])
              /\ tot[p].cooldowns = Len(attempts[p])
              /\ HTTP_PROXY_LIST = atCall[p].list
              /\ MAX_CONNECTION_ATTEMPTS >= 0
                 => Len(attempts[p]) = MAX_CONNECTION_ATTEMPTS

C11_Witness ==
    /\ Returned(1)
    /\ MAX_CONNECTION_ATTEMPTS = 3
    /\ Len(attempts[1]) = 3
    /\ \A i \in 1..3 : DirectBlock(Attempt(1, i))
    /\ REQUEST_SLEEP = atCall[1].sleep + 3
    /\ tot[1].cooldowns = 3

\* C12: in a sequential session, an attempt whose request was answered with
\* an HTTP status ends only by returning or by a cancellation, and when it
\* returns it returns the response with that status and its attempt id, after
\* the side effects of a soft block; an attempt returns None only when its
\* request raised an exception instead of answering.
C12_StatusResponseReturned ==
    \A p \in Procs :
        /\ cur[p].status # 0 => fault[p] \in {""} \cup Cancellations
        /\ (pc[p] = "check" /\ cur[p].status # 0)
           => /\ response[p] =
                    [status_code |-> cur[p].status, id |-> attempt_id[p]]
              /\ Attempt(p, Len(attempts[p])).how = "response"
              /\ cur[p].status >= 300
                 => \/ ~Truthy(cur[p].sentProxy) /\ cur[p].increments = 1
                    \/ Truthy(cur[p].sentProxy) /\ cur[p].coin # "none"
        /\ (pc[p] = "check" /\ response[p] = None)
           => /\ cur[p].status = 0
              /\ fault[p] \in RequestExceptions \cup OtherExceptions

C12_Witness ==
    /\ pc[1] = "check"
    /\ cur[1].status = 503
    /\ cur[1].removed /\ cur[1].refilled
    /\ response[1] = [status_code |-> 503, id |-> 1]

\* C13: after a soft-blocked attempt through proxy p that took the removal
\* branch without emptying the list, p is not in HTTP_PROXY_LIST and every
\* other entry is kept, for every list the code accepts (a list may hold p
\* more than once).  list.remove drops the first occurrence only, so with
\* HTTP_PROXY_LIST = [p, p] the proxy is still in the list and can be chosen
\* again before any refill.
C13_RemovedProxyAbsent ==
    \A p \in Procs :
        ( /\ AttemptReturned(p)
          /\ BlockedViaProxy(p)
          /\ cur[p].removed /\ ~cur[p].refilled )
        => /\ cur[p].sentProxy \notin Elems(HTTP_PROXY_LIST)
           /\ \A q \in Elems(cur[p].preList) \ {cur[p].sentProxy} :
                 q \in Elems(HTTP_PROXY_LIST)

\* C14: an attempt sleeps once before anything else and issues at most one
\* request; a request is preceded in its attempt by exactly one politeness
\* sleep, of at most the REQUEST_SLEEP current at that moment, and an attempt
\* that ended (success, failure or soft block) has performed that sleep.
C14_PolitenessSleepFirst ==
    \A p \in Procs :
        /\ cur[p].sleeps <= 1
        /\ cur[p].requests <= 1
        /\ cur[p].slept >= 0 /\ cur[p].slept <= cur[p].preSleep
        /\ cur[p].requests = 1 => cur[p].sleeps = 1
        /\ pc[p] \in {"select", "choose", "request"} \/ PastRequest(p)
           => cur[p].sleeps = 1
        /\ cur[p].sleeps = 0
           => /\ cur[p].requests = 0
              /\ cur[p].cooldowns = 0
              /\ cur[p].coin = "none"
              /\ cur[p].sentProxy = NoProxy
        /\ tot[p].requests <= tot[p].sleeps
        /\ tot[p].sleeps = tot[p].calls - (IF pc[p] = "sleep" THEN 1 ELSE 0)

C14_Witness ==
    /\ AttemptReturned(1)
    /\ cur[1].requests = 1
    /\ cur[1].status = 503
    /\ cur[1].preSleep = 1
    /\ cur[1].slept = 1
    /\ tot[1].sleeps = 2

\* C16: an attempt that ends with a status below 300 or with a failure of
\* the request leaves HTTP_PROXY_LIST, HTTP_PROXY_LIST_COMPLETE and
\* REQUEST_SLEEP as they were and performs no cooldown sleep; while an
\* attempt runs, a change of the configuration or a cooldown implies that
\* the request of this attempt was answered with a status of 300 or more.
C16_OnlySoftBlockMutates ==
    \A p \in Procs :
        /\ ( /\ pc[p] = "check"
             /\ \/ cur[p].status # 0 /\ cur[p].status < 300
                \/ response[p] = None )
           => /\ HTTP_PROXY_LIST = cur[p].preList
              /\ HTTP_PROXY_LIST_COMPLETE = atCall[p].complete
              /\ REQUEST_SLEEP = cur[p].preSleep
              /\ cur[p].cooldowns = 0 /\ cur[p].cooled = 0
              /\ cur[p].coin = "none"
        /\ ( /\ pc[p] \notin {"idle", "loop", "done"}
             /\ \/ HTTP_PROXY_LIST # cur[p].preList
                \/ REQUEST_SLEEP # cur[p].preSleep
                \/ cur[p].cooldowns > 0 )
           => cur[p].status >= 300
        /\ pc[p] # "idle" => HTTP_PROXY_LIST_COMPLETE = atCall[p].complete

C16_Witness ==
    /\ pc[1] = "check"
    /\ Len(attempts[1]) = 3
    /\ Attempt(1, 1).status = 503 /\ Attempt(1, 1).coin = "remove"
    /\ Attempt(1, 2).how = "None"
    /\ cur[1].status = 204
    /\ HTTP_PROXY_LIST = cur[1].preList
    /\ HTTP_PROXY_LIST # HTTP_PROXY_LIST_COMPLETE

\* C17: in a sequential session that starts with non-empty HTTP_PROXY_LIST
\* and HTTP_PROXY_LIST_COMPLETE, the live list is empty only between a
\* removal and the refill of the same attempt; so it is non-empty when an
\* attempt starts and when the session ends, and every request is sent
\* through a proxy of the complete list.
C17_AlwaysViaProxy ==
    \A p \in Callers :
        ( /\ pc[p] # "idle"
          /\ atCall[p].list # << >>
          /\ atCall[p].complete # << >> )
        => /\ pc[p] \notin {"refill", "reset"} => HTTP_PROXY_LIST # << >>
           /\ pc[p] \notin {"loop", "done"} => cur[p].preList # << >>
           /\ cur[p].requests = 1
              => /\ Truthy(cur[p].sentProxy)
                 /\ cur[p].sentProxy \in Elems(HTTP_PROXY_LIST_COMPLETE)
           /\ \A i \in 1..Len(attempts[p]) :
                 Attempt(p, i).status # 0 => Attempt(p, i).viaProxy
           /\ pc[p] = "request" => Truthy(http_proxy[p])

C17_Witness ==
    /\ pc[1] = "request"
    /\ atCall[1].list = <<"p1">>
    /\ Len(attempts[1]) = 3
    /\ Attempt(1, 1).coin = "remove" /\ Attempt(1, 1).viaProxy
    /\ Attempt(1, 2).coin = "remove" /\ Attempt(1, 2).viaProxy
    /\ http_proxy[1] = "p1"
    /\ tot[1].refills = 2

\* C18: REQUEST_SLEEP never goes below its value at the call and changes
\* only by one increment of 1 per attempt, made after exactly one cooldown
\* sleep of that attempt; between the attempts of a session that was not
\* cancelled it equals its value at the call plus the number of cooldown
\* sleeps so far, and an attempt that refilled the list and returned has
\* made one increment.
C18_SleepGrowsWithCooldowns ==
    \A p \in Callers :
        pc[p] # "idle"
        => /\ REQUEST_SLEEP >= atCall[p].sleep
           /\ REQUEST_SLEEP <= atCall[p].sleep + tot[p].cooldowns
           /\ cur[p].increments <= cur[p].cooldowns
           /\ cur[p].cooldowns <= 1
           /\ cur[p].cooled = cur[p].cooldowns * RE_INIT_SLEEP_TIME
           /\ pc[p] \notin {"loop", "done"}
              => REQUEST_SLEEP = cur[p].preSleep + cur[p].increments
           /\ (pc[p] \in {"check", "loop", "done"} /\ signal[p] = "")
              => REQUEST_SLEEP = atCall[p].sleep + tot[p].cooldowns
           /\ tot[p].refills
                 <= tot[p].cooldowns + (IF pc[p] = "cooldown" THEN 1 ELSE 0)
           /\ cur[p].refilled /\ AttemptReturned(p) => cur[p].increments = 1
           /\ pc[p] = "incr" => cur[p].cooldowns = 1 /\ cur[p].increments = 0

C18_Witness ==
    /\ pc[1] = "loop"
    /\ signal[1] = ""
    /\ Len(attempts[1]) = 3
    /\ tot[1].cooldowns = 2
    /\ tot[1].refills = 2
    /\ REQUEST_SLEEP = atCall[1].sleep + 2

\* the control points of a call in the order a call passes them, last first
Order ==
    << "done", "loop", "check", "incr", "cooldown", "reset", "refill", "coin",
       "blocked", "request", "choose", "select", "sleep", "idle" >>

\* what is left of the call of caller p: the iterations left, then the
\* control points left in the current iteration
Measure(p) ==
    IF pc[p] = "done" THEN 0
    ELSE LET left == Len(Range(MAX_CONNECTION_ATTEMPTS))
                        - (IF pc[p] = "idle" THEN 0 ELSE it[p])
         IN  left * Len(Order) + FirstIndex(Order, pc[p])

\* C20: every step of a call lowers a measure that is never negative, and a
\* call that has not ended can take a step, so the call ends when each of
\* its steps ends; it makes at most MAX_CONNECTION_ATTEMPTS attempts, and
\* with MAX_CONNECTION_ATTEMPTS <= 0 it makes no attempt, sleeps never,
\* leaves the configuration as it was and returns None.
C20_FetchTerminates ==
    /\ [](\A p \in Callers :
             /\ Measure(p) >= 0
             /\ pc[p] # "done" => ENABLED Step(p)
             /\ Len(attempts[p]) = tot[p].calls
             /\ tot[p].calls <= Len(Range(MAX_CONNECTION_ATTEMPTS))
             /\ MAX_CONNECTION_ATTEMPTS >= 0
                => tot[p].calls <= MAX_CONNECTION_ATTEMPTS
             /\ MAX_CONNECTION_ATTEMPTS <= 0
                => /\ pc[p] \in {"idle", "loop", "done"}
                   /\ tot[p] = NoTotals
                   /\ attempts[p] = << >>
                   /\ pc[p] = "done"
                      => /\ result[p] = None
                         /\ raised[p] = ""
                         /\ HTTP_PROXY_LIST = atCall[p].list
                         /\ HTTP_PROXY_LIST_COMPLETE = atCall[p].complete
                         /\ REQUEST_SLEEP = atCall[p].sleep)
    /\ [][\A p \in Callers : Measure(p)' < Measure(p)]_vars

C20_Witness ==
    /\ pc[1] = "done"
    /\ MAX_CONNECTION_ATTEMPTS = -1
    /\ result[1] = None
    /\ tot[1] = NoTotals
    /\ HTTP_PROXY_LIST = <<"p1", "p2">>
    /\ REQUEST_SLEEP = 1

\* the number of times x occurs in list
Count(list, x) == Cardinality({i \in 1..Len(list) : list[i] = x})

\* C15: when the steps of two fetches on one config interleave, in every
\* state every proxy of HTTP_PROXY_LIST is a proxy of
\* HTTP_PROXY_LIST_COMPLETE and occurs in it at most as often as there, and
\* HTTP_PROXY_LIST_COMPLETE is the list it was at the calls.
C15_InterleavedPoolWithinComplete ==
    /\ Elems(HTTP_PROXY_LIST) \subseteq Elems(HTTP_PROXY_LIST_COMPLETE)
    /\ \A x \in Proxies :
          Count(HTTP_PROXY_LIST, x) <= Count(HTTP_PROXY_LIST_COMPLETE, x)
    /\ \A p \in Procs :
          /\ pc[p] # "idle" => HTTP_PROXY_LIST_COMPLETE = atCall[p].complete
          /\ Truthy(http_proxy[p])
             => http_proxy[p] \in Elems(HTTP_PROXY_LIST_COMPLETE)

\* both fetches have emptied and refilled the list, the second refill made
\* while the first fetch was in its cooldown
C15_Witness ==
    /\ tot[1].removes = 1 /\ tot[2].removes = 1
    /\ tot[1].refills = 1 /\ tot[2].refills = 1
    /\ pc[1] = "cooldown" /\ pc[2] = "cooldown"
    /\ HTTP_PROXY_LIST = HTTP_PROXY_LIST_COMPLETE

\* C19: when the steps of two fetches interleave, the removal of a
\* soft-blocked attempt finds its proxy in HTTP_PROXY_LIST: no attempt that
\* got a status fails with the ValueError of list.remove and returns None.
C19_RemovalFindsProxy ==
    \A p \in Procs :
        /\ cur[p].status >= 300 => fault[p] \in {""} \cup Cancellations
        /\ (pc[p] = "check" /\ cur[p].status >= 300) => response[p] # None

====
